---- MODULE Spec2Model ----
(***************************************************************************)
(* Model of cloud-function/setup_bigquery.py: the BigQuery provisioning    *)
(* script of the SPX daily trader.  The warehouse (one dataset, the tables *)
(* and views in it) is the state the script acts on; every client call of  *)
(* the script is one step, and a call either returns or raises.            *)
(***************************************************************************)
EXTENDS Integers, Sequences, FiniteSets, TLC

VARIABLES dataset, objs, pc, step, log, stdout, exit, prior, run, others

vars == <<dataset, objs, pc, step, log, stdout, exit, prior, run, others>>

\* Number of consecutive invocations of the script that are explored.
MaxRuns == 2
\* Number of changes another user of the warehouse makes (SpecEnv only).
MaxOther == 1

(***************************************************************************)
(* Literal constants of the script                                         *)
(***************************************************************************)
project_id == "galvanic-ripsaw-381707"
dataset_name == "spx_trading"
dataset_location == "US"

SchemaField(name, type, mode) ==
    [name |-> name, type |-> type, mode |-> mode, default |-> "None"]

SchemaFieldDefault(name, type, mode, default_value_expression) ==
    [name |-> name, type |-> type, mode |-> mode, default |-> default_value_expression]

get_daily_summary_schema ==
    << SchemaField("date", "DATE", "REQUIRED"),
       SchemaFieldDefault("strategy", "STRING", "REQUIRED", "'MACD_Momentum'"),
       SchemaField("trading_day", "STRING", "REQUIRED"),
       SchemaField("spx_bars_count", "INTEGER", "REQUIRED"),
       SchemaField("entry_signals", "INTEGER", "REQUIRED"),
       SchemaField("exit_signals", "INTEGER", "REQUIRED"),
       SchemaField("total_trades", "INTEGER", "REQUIRED"),
       SchemaField("winning_trades", "INTEGER", "REQUIRED"),
       SchemaField("losing_trades", "INTEGER", "REQUIRED"),
       SchemaField("win_rate", "FLOAT", "REQUIRED"),
       SchemaField("total_profit", "FLOAT", "REQUIRED"),
       SchemaField("total_loss", "FLOAT", "REQUIRED"),
       SchemaField("net_pnl", "FLOAT", "REQUIRED"),
       SchemaField("average_win", "FLOAT", "NULLABLE"),
       SchemaField("average_loss", "FLOAT", "NULLABLE"),
       SchemaField("api_requests_made", "INTEGER", "REQUIRED"),
       SchemaField("execution_time_seconds", "FLOAT", "NULLABLE"),
       SchemaField("market_open_spx", "FLOAT", "NULLABLE"),
       SchemaField("market_close_spx", "FLOAT", "NULLABLE"),
       SchemaField("spx_daily_change", "FLOAT", "NULLABLE"),
       SchemaField("spx_daily_change_percent", "FLOAT", "NULLABLE"),
       SchemaFieldDefault("created_at", "TIMESTAMP", "NULLABLE", "CURRENT_TIMESTAMP()"),
       SchemaField("cloud_function_version", "STRING", "NULLABLE"),
       SchemaField("error_message", "STRING", "NULLABLE") >>

get_trades_schema ==
    << SchemaField("date", "DATE", "REQUIRED"),
       SchemaField("trade_id", "STRING", "REQUIRED"),
       SchemaField("symbol", "STRING", "REQUIRED"),
       SchemaField("strike_price", "INTEGER", "REQUIRED"),
       SchemaField("entry_time", "TIMESTAMP", "REQUIRED"),
       SchemaField("entry_time_est", "STRING", "REQUIRED"),
       SchemaField("entry_price", "FLOAT", "REQUIRED"),
       SchemaField("entry_spx_price", "FLOAT", "REQUIRED"),
       SchemaField("entry_macd", "FLOAT", "REQUIRED"),
       SchemaField("entry_signal", "FLOAT", "REQUIRED"),
       SchemaField("entry_histogram", "FLOAT", "REQUIRED"),
       SchemaField("exit_time", "TIMESTAMP", "NULLABLE"),
       SchemaField("exit_time_est", "STRING", "NULLABLE"),
       SchemaField("exit_price", "FLOAT", "NULLABLE"),
       SchemaField("exit_spx_price", "FLOAT", "NULLABLE"),
       SchemaField("exit_macd", "FLOAT", "NULLABLE"),
       SchemaField("exit_signal", "FLOAT", "NULLABLE"),
       SchemaField("exit_histogram", "FLOAT", "NULLABLE"),
       SchemaField("hold_duration_minutes", "INTEGER", "NULLABLE"),
       SchemaField("pnl", "FLOAT", "REQUIRED"),
       SchemaField("pnl_percent", "FLOAT", "REQUIRED"),
       SchemaField("exit_reason", "STRING", "REQUIRED"),
       SchemaField("is_winner", "BOOLEAN", "REQUIRED"),
       SchemaField("trade_sequence", "INTEGER", "REQUIRED"),
       SchemaFieldDefault("created_at", "TIMESTAMP", "NULLABLE", "CURRENT_TIMESTAMP()") >>

\* get_market_data_schema with the volume column left out.
get_market_data_schema_NoVolume ==
    << SchemaField("date", "DATE", "REQUIRED"),
       SchemaField("timestamp", "TIMESTAMP", "REQUIRED"),
       SchemaField("spx_price", "FLOAT", "REQUIRED"),
       SchemaField("spx_open", "FLOAT", "NULLABLE"),
       SchemaField("spx_high", "FLOAT", "NULLABLE"),
       SchemaField("spx_low", "FLOAT", "NULLABLE"),
       SchemaFieldDefault("created_at", "TIMESTAMP", "NULLABLE", "CURRENT_TIMESTAMP()") >>

get_market_data_schema ==
    << SchemaField("date", "DATE", "REQUIRED"),
       SchemaField("timestamp", "TIMESTAMP", "REQUIRED"),
       SchemaField("spx_price", "FLOAT", "REQUIRED"),
       SchemaField("spx_open", "FLOAT", "NULLABLE"),
       SchemaField("spx_high", "FLOAT", "NULLABLE"),
       SchemaField("spx_low", "FLOAT", "NULLABLE"),
       SchemaField("volume", "INTEGER", "NULLABLE"),
       SchemaFieldDefault("created_at", "TIMESTAMP", "NULLABLE", "CURRENT_TIMESTAMP()") >>

\* A view query: the text of the f-string with the table reference that the
\* substitution of project_id and dataset_name produces in its FROM clause.
ViewQuery(text, project, dset, table) ==
    [text |-> text, from |-> <<project, dset, table>>]

NoQuery == [text |-> "", from |-> <<>>]

daily_performance_query ==
    ViewQuery("SELECT date, net_pnl, win_rate, total_trades, spx_daily_change_percent, CASE day_result ORDER BY date DESC",
              project_id, dataset_name, "daily_summary")

monthly_summary_query ==
    ViewQuery("SELECT year, month, trading_days, total_trades, monthly_pnl, avg_win_rate, profitable_days, loss_days GROUP BY year, month ORDER BY year DESC, month DESC",
              project_id, dataset_name, "daily_summary")

strike_performance_query ==
    ViewQuery("SELECT strike_price, total_trades, winning_trades, win_rate, avg_pnl, total_pnl, avg_hold_minutes GROUP BY strike_price ORDER BY total_trades DESC",
              project_id, dataset_name, "trades")

(***************************************************************************)
(* The provisioning calls of main and create_views, in program order       *)
(***************************************************************************)
TableCall(table_name, schema, partition_field, cluster_fields) ==
    [kind |-> "table", name |-> table_name, schema |-> schema,
     partition_field |-> partition_field, cluster_fields |-> cluster_fields,
     query |-> NoQuery]

ViewCall(view_name, query) ==
    [kind |-> "view", name |-> view_name, schema |-> <<>>,
     partition_field |-> "", cluster_fields |-> <<>>, query |-> query]

TableCalls ==
    << TableCall("daily_summary", get_daily_summary_schema, "date",
                 <<"date", "strategy">>),
       TableCall("trades", get_trades_schema, "date",
                 <<"date", "symbol", "trade_sequence">>),
       TableCall("market_data_archive", get_market_data_schema, "date",
                 <<"date", "timestamp">>) >>

ViewCalls ==
    << ViewCall("daily_performance", daily_performance_query),
       ViewCall("monthly_summary", monthly_summary_query),
       ViewCall("strike_performance", strike_performance_query) >>

\* Steps with create_views called before the create_table calls.
Steps_ViewsFirst == ViewCalls \o TableCalls

Steps == TableCalls \o ViewCalls

NSteps == Len(Steps)

\* table_id = f"{project_id}.{dataset_name}.{table_name}"
TableId(project, dset, name) == <<project, dset, name>>

\* StepId with the name of the first table in every identifier.
StepId_FirstTable(i) == TableId(project_id, dataset_name, "daily_summary")

StepId(i) == TableId(project_id, dataset_name, Steps[i].name)

DatasetId == <<project_id, dataset_name>>

(***************************************************************************)
(* The warehouse                                                           *)
(***************************************************************************)
\* An object of the dataset the script does not name.
OtherName == "positions_backup"

Names == {Steps[i].name : i \in 1..NSteps}

Ids == {TableId(project_id, dataset_name, n) : n \in Names \cup {OtherName}}

NoPartition == [type |-> "", field |-> ""]

Absent ==
    [kind |-> "NONE", schema |-> <<>>, partition |-> NoPartition,
     cluster |-> <<>>, rows |-> 0, query |-> NoQuery]

\* NewTable with the time partitioning left out.
NewTable_NoPartition(schema, partition_field, cluster_fields) ==
    [kind |-> "TABLE", schema |-> schema, partition |-> NoPartition,
     cluster |-> cluster_fields, rows |-> 0, query |-> NoQuery]

\* bigquery.Table(table_id, schema=schema) with the optional partitioning and
\* clustering set, as the warehouse stores it once created: with no rows.
NewTable(schema, partition_field, cluster_fields) ==
    [kind |-> "TABLE", schema |-> schema,
     partition |-> IF partition_field # ""
                   THEN [type |-> "DAY", field |-> partition_field]
                   ELSE NoPartition,
     cluster |-> IF cluster_fields # <<>> THEN cluster_fields ELSE <<>>,
     rows |-> 0, query |-> NoQuery]

\* bigquery.Table(view_id) with view_query set.
NewView(query) ==
    [kind |-> "VIEW", schema |-> <<>>, partition |-> NoPartition,
     cluster |-> <<>>, rows |-> 0, query |-> query]

\* What a warehouse may hold under an identifier before the script runs.
StaleTable ==
    [kind |-> "TABLE",
     schema |-> << SchemaField("date", "DATE", "REQUIRED"),
                   SchemaField("legacy_pnl", "FLOAT", "NULLABLE") >>,
     partition |-> NoPartition, cluster |-> <<>>, rows |-> 3, query |-> NoQuery]

StaleView ==
    NewView(ViewQuery("SELECT * ", project_id, dataset_name, OtherName))

PriorObjects == {Absent, StaleTable, StaleView}

NoDataset == [exists |-> FALSE, location |-> ""]

NewDataset(location) == [exists |-> TRUE, location |-> location]

DatasetLocations == {"US", "EU"}

\* The object a provisioning call asks for.
Target(i) ==
    IF Steps[i].kind = "table"
    THEN NewTable(Steps[i].schema, Steps[i].partition_field, Steps[i].cluster_fields)
    ELSE NewView(Steps[i].query)

(***************************************************************************)
(* Outcomes of the client calls.  Every call can fail with an API error    *)
(* (Forbidden stands for any error that is neither NotFound nor Conflict). *)
(***************************************************************************)
GetDatasetResults(ds) ==
    IF ds.exists THEN {"ok", "Forbidden"} ELSE {"NotFound", "Forbidden"}

CreateDatasetResults(ds) ==
    IF ds.exists THEN {"Conflict", "Forbidden"} ELSE {"ok", "Forbidden"}

GetTableResults(o) ==
    IF o.kind # "NONE" THEN {"ok", "Forbidden"} ELSE {"NotFound", "Forbidden"}

DeleteTableResults(o) ==
    IF o.kind # "NONE" THEN {"ok", "Forbidden"} ELSE {"NotFound", "Forbidden"}

CreateTableResults(o) ==
    IF o.kind # "NONE" THEN {"Conflict", "Forbidden"} ELSE {"ok", "Forbidden"}

\* Handled as "except Exception: pass".
Handled_Any(err) == TRUE

\* Handled with no except clause.
Handled_None(err) == FALSE

\* except NotFound: pass
Handled(err) == err = "NotFound"

Call(api, id, res) == [api |-> api, id |-> id, res |-> res]

Snapshot == [dataset |-> dataset, objs |-> objs]

(***************************************************************************)
(* Initial states: any warehouse, the script about to start                *)
(***************************************************************************)
Init ==
    /\ \/ /\ dataset = NoDataset
          /\ objs = [id \in Ids |-> Absent]
       \/ /\ dataset \in {NewDataset(l) : l \in DatasetLocations}
          /\ objs \in [Ids -> PriorObjects]
    /\ pc = "get_dataset"
    /\ step = 0
    /\ log = <<>>
    /\ stdout = <<>>
    /\ exit = -1
    /\ prior = Snapshot
    /\ run = 1
    /\ others = 0

(***************************************************************************)
(* The script                                                              *)
(***************************************************************************)
\* Raise with the error swallowed: the script goes on to the next call.
Raise_Continue(call) ==
    /\ log' = Append(log, call)
    /\ IF step < Len(TableCalls \o ViewCalls)
       THEN pc' = "get_table" /\ step' = step + 1 /\ UNCHANGED exit
       ELSE pc' = "done" /\ exit' = 0 /\ UNCHANGED step
    /\ UNCHANGED <<dataset, objs, stdout, prior, run, others>>

\* An exception nobody catches: the traceback ends the process with status 1.
Raise(call) ==
    /\ log' = Append(log, call)
    /\ pc' = "failed"
    /\ exit' = 1
    /\ UNCHANGED <<dataset, objs, step, stdout, prior, run, others>>

\* main, from the first create_table call on.
StartTables(lines) ==
    /\ pc' = "get_table"
    /\ step' = 1
    /\ stdout' = stdout \o lines

\* client.get_dataset(dataset_id)
main_get_dataset ==
    /\ pc = "get_dataset"
    /\ \E r \in GetDatasetResults(dataset) :
         LET c == Call("get_dataset", DatasetId, r) IN
         IF r = "ok"
         THEN /\ StartTables(<< <<"Dataset already exists", dataset_name>> >>)
              /\ log' = Append(log, c)
              /\ UNCHANGED <<dataset, objs, exit, prior, run, others>>
         ELSE IF Handled(r)
         THEN /\ pc' = "create_dataset"
              /\ stdout' = Append(stdout, <<"Creating dataset", dataset_name>>)
              /\ log' = Append(log, c)
              /\ UNCHANGED <<dataset, objs, step, exit, prior, run, others>>
         ELSE Raise(c)

\* client.create_dataset(dataset), dataset.location = "US"
main_create_dataset ==
    /\ pc = "create_dataset"
    /\ \E r \in CreateDatasetResults(dataset) :
         LET c == Call("create_dataset", DatasetId, r) IN
         IF r = "ok"
         THEN /\ dataset' = NewDataset(dataset_location)
              /\ StartTables(<< <<"Dataset created", dataset_name>> >>)
              /\ log' = Append(log, c)
              /\ UNCHANGED <<objs, exit, prior, run, others>>
         ELSE Raise(c)

\* The return of create_table / create_view number i: the next call of main
\* or of create_views, or the end of main.
Return(i, lines) ==
    IF i < NSteps
    THEN /\ pc' = "get_table"
         /\ step' = i + 1
         /\ stdout' = stdout \o lines \o
                IF Steps[i + 1].kind = "view" /\ Steps[i].kind = "table"
                THEN << <<"Creating views...", "">> >> ELSE <<>>
         /\ UNCHANGED exit
    ELSE /\ pc' = "done"
         /\ step' = i
         /\ stdout' = stdout \o lines \o << <<"BigQuery setup complete", "">> >>
         /\ exit' = 0

\* OnFound with the delete_table left out.
OnFound_SkipDelete == "create_table"

\* The statement that follows a get_table that returned: the delete_table of
\* the same try block.
OnFound == "delete_table"

\* client.get_table(table_id) in the try block
Lookup(kind) ==
    /\ pc = "get_table"
    /\ Steps[step].kind = kind
    /\ \E r \in GetTableResults(objs[StepId(step)]) :
         LET c == Call("get_table", StepId(step), r) IN
         IF r = "ok"
         THEN /\ pc' = OnFound
              /\ log' = Append(log, c)
              /\ UNCHANGED <<dataset, objs, step, stdout, exit, prior, run, others>>
         ELSE IF Handled(r)
         THEN /\ pc' = "create_table"
              /\ stdout' = Append(stdout, <<"Creating " \o kind, Steps[step].name>>)
              /\ log' = Append(log, c)
              /\ UNCHANGED <<dataset, objs, step, exit, prior, run, others>>
         ELSE Raise(c)

\* AfterDelete with the creation placed in the except branch: a found object
\* is deleted and the function returns.
AfterDelete_Return(kind, lines) == Return(step, lines)

\* After the delete returned: the function goes on to build and create the
\* object.
AfterDelete(kind, lines) ==
    /\ pc' = "create_table"
    /\ stdout' = stdout \o lines \o << <<"Creating " \o kind, Steps[step].name>> >>
    /\ UNCHANGED <<step, exit>>

\* client.delete_table(table_id) in the try block
Delete(kind) ==
    /\ pc = "delete_table"
    /\ Steps[step].kind = kind
    /\ \E r \in DeleteTableResults(objs[StepId(step)]) :
         LET c == Call("delete_table", StepId(step), r) IN
         IF r = "ok"
         THEN /\ objs' = [objs EXCEPT ![StepId(step)] = Absent]
              /\ AfterDelete(kind, << <<"Deleted existing " \o kind, Steps[step].name>> >>)
              /\ log' = Append(log, c)
              /\ UNCHANGED <<dataset, prior, run, others>>
         ELSE IF Handled(r)
         THEN /\ pc' = "create_table"
              /\ stdout' = Append(stdout, <<"Creating " \o kind, Steps[step].name>>)
              /\ log' = Append(log, c)
              /\ UNCHANGED <<dataset, objs, step, exit, prior, run, others>>
         ELSE Raise(c)

\* client.create_table(table)
Create(kind) ==
    /\ pc = "create_table"
    /\ Steps[step].kind = kind
    /\ \E r \in CreateTableResults(objs[StepId(step)]) :
         LET c == Call("create_table", StepId(step), r) IN
         IF r = "ok"
         THEN /\ objs' = [objs EXCEPT ![StepId(step)] = Target(step)]
              /\ Return(step, << <<kind \o " created", Steps[step].name>> >>)
              /\ log' = Append(log, c)
              /\ UNCHANGED <<dataset, prior, run, others>>
         ELSE Raise(c)

create_table_lookup == Lookup("table")
create_table_delete == Delete("table")
create_table_create == Create("table")

create_view_lookup == Lookup("view")
create_view_delete == Delete("view")
create_view_create == Create("view")

\* The script is run again after a run that completed.
Rerun ==
    /\ pc = "done"
    /\ run < MaxRuns
    /\ pc' = "get_dataset"
    /\ step' = 0
    /\ log' = <<>>
    /\ stdout' = <<>>
    /\ exit' = -1
    /\ prior' = Snapshot
    /\ run' = run + 1
    /\ UNCHANGED <<dataset, objs, others>>

\* Another user of the warehouse drops or creates the object the script is
\* provisioning, between the lookup and the delete or between the delete and
\* the create.  (A change before the lookup is an initial state of the object;
\* a change after the create is read by no call of the script.)
OtherActor ==
    /\ others < MaxOther
    /\ pc \in {"delete_table", "create_table"}
    /\ objs' = [objs EXCEPT ![StepId(step)] =
                    IF objs[StepId(step)].kind # "NONE" THEN Absent ELSE StaleTable]
    /\ others' = others + 1
    /\ UNCHANGED <<dataset, pc, step, log, stdout, exit, prior, run>>

Next ==
    \/ main_get_dataset
    \/ main_create_dataset
    \/ create_table_lookup
    \/ create_table_delete
    \/ create_table_create
    \/ create_view_lookup
    \/ create_view_delete
    \/ create_view_create
    \/ Rerun

Spec == Init /\ [][Next]_vars

\* The script alone in the warehouse, every step eventually taken.
FairSpec == Spec /\ WF_vars(Next)

\* The script with another user of the warehouse.
SpecEnv == Init /\ [][Next \/ OtherActor]_vars
(***************************************************************************)
(* Properties                                                              *)
(***************************************************************************)
Last == log[Len(log)]

Calls(api, id) == {k \in 1..Len(log) : log[k].api = api /\ log[k].id = id}

Id(name) == TableId(project_id, dataset_name, name)

TableSteps == {i \in 1..NSteps : Steps[i].kind = "table"}
ViewSteps == {i \in 1..NSteps : Steps[i].kind = "view"}

\* create_table / create_view number i has just returned.
Returned(i) ==
    /\ Len(log) > 0
    /\ Last = Call("create_table", StepId(i), "ok")

\* C1: whatever was under the identifier before (nothing, a table with another
\* schema and rows, a view), when create_table returns the identifier holds a
\* table with exactly the schema, the daily partitioning on the partition
\* column and the clustering columns passed in, and no rows; when create_view
\* returns it holds a view whose query is exactly the query passed in.
C1_CreateLeavesRequestedObject ==
    /\ \A i \in TableSteps :
         Returned(i) =>
           /\ objs[StepId(i)].kind = "TABLE"
           /\ objs[StepId(i)].schema = Steps[i].schema
           /\ objs[StepId(i)].partition = [type |-> "DAY", field |-> Steps[i].partition_field]
           /\ objs[StepId(i)].cluster = Steps[i].cluster_fields
           /\ objs[StepId(i)].rows = 0
           /\ objs[StepId(i)].query = NoQuery
    /\ \A i \in ViewSteps :
         Returned(i) =>
           /\ objs[StepId(i)].kind = "VIEW"
           /\ objs[StepId(i)].query = Steps[i].query
           /\ objs[StepId(i)].schema = <<>>
           /\ objs[StepId(i)].rows = 0

\* A first run that completed over a stale table, a stale view and nothing
\* under the table identifiers, and over a stale table under a view identifier.
C1_Witness ==
    /\ pc = "done" /\ run = 1
    /\ Returned(NSteps)
    /\ prior.objs[Id("daily_summary")] = StaleTable
    /\ prior.objs[Id("trades")] = StaleView
    /\ prior.objs[Id("market_data_archive")] = Absent
    /\ prior.objs[Id("daily_performance")] = StaleTable
    /\ prior.objs[Id("monthly_summary")] = StaleView
    /\ prior.objs[Id("strike_performance")] = StaleView

\* C2: when a run completes that was started after a completed run, the
\* dataset and every table and view are what they were when the earlier run
\* completed.
C2_RerunSameEndState ==
    (pc = "done" /\ run > 1) =>
       /\ \A i \in 1..NSteps : objs[StepId(i)] = prior.objs[StepId(i)]
       /\ Snapshot = prior

\* A second run that completed.
C2_Witness ==
    /\ pc = "done" /\ run = 2
    /\ \A i \in 1..NSteps : Cardinality(Calls("delete_table", StepId(i))) = 1
DatasetLookup(r) == Len(log) > 0 /\ log[1] = Call("get_dataset", DatasetId, r)

DatasetCreates == Calls("create_dataset", DatasetId)

\* The run is in the create_table / create_views part of main.
AtTables == step >= 1

\* C3 as stated: after a dataset lookup that succeeded, no create-dataset call
\* is issued and the run is at table provisioning with the dataset present;
\* after a lookup that reported not-found, create-dataset is issued exactly
\* once and the run is then at table provisioning with the dataset present.
C3_Original ==
    /\ DatasetLookup("ok") =>
         DatasetCreates = {} /\ AtTables /\ dataset.exists
    /\ DatasetLookup("NotFound") =>
         \/ pc = "create_dataset" /\ DatasetCreates = {}
         \/ Cardinality(DatasetCreates) = 1 /\ AtTables /\ dataset.exists

\* C3 amended: a create-dataset call is issued only after a lookup that
\* reported not-found, and at most once.  After a lookup that succeeded the
\* run is at table provisioning with the dataset present and untouched.  After
\* a lookup that reported not-found the one create-dataset call either returns,
\* and the run is at table provisioning with the dataset present in location
\* US, or raises, and the run has failed before any table call.
C3_DatasetEnsured ==
    /\ DatasetCreates # {} => DatasetLookup("NotFound")
    /\ DatasetLookup("ok") =>
         DatasetCreates = {} /\ AtTables /\ dataset.exists /\ dataset = prior.dataset
    /\ DatasetLookup("NotFound") =>
         \/ pc = "create_dataset" /\ DatasetCreates = {} /\ Len(log) = 1
         \/ /\ DatasetCreates = {2}
            /\ log[2].res = "ok"
            /\ AtTables
            /\ dataset = [exists |-> TRUE, location |-> "US"]
         \/ /\ DatasetCreates = {2}
            /\ log[2].res # "ok"
            /\ Len(log) = 2
            /\ pc = "failed" /\ exit = 1 /\ ~AtTables
            /\ dataset = prior.dataset
    /\ AtTables => dataset.exists

\* The dataset was absent, was created, and the first table lookup was made.
C3_Witness ==
    /\ DatasetLookup("NotFound")
    /\ Cardinality(DatasetCreates) = 1
    /\ ~prior.dataset.exists
    /\ dataset.location = "US"
    /\ Len(log) = 3 /\ Last.api = "get_table"

\* A call raised an error that no except clause of the script catches.
Unhandled(k) == log[k].res \in {"Forbidden", "Conflict"}

StepOf(id) == CHOOSE i \in 0..NSteps : IF id = DatasetId THEN i = 0 ELSE i > 0 /\ StepId(i) = id

CompletionLine == <<"BigQuery setup complete", "">>

Printed(line) == \E k \in 1..Len(stdout) : stdout[k] = line

\* C4: once a call has raised an error that is not handled, it is the last
\* call of the run: the run has failed at that step with exit status 1 and
\* can take no further step, no call was issued for any later object, every
\* object of an earlier step is as that step created it, and the completion
\* line is not printed.
C4_AbortAtFailingStep ==
    \A k \in 1..Len(log) :
       Unhandled(k) =>
         /\ k = Len(log)
         /\ pc = "failed" /\ exit = 1
         /\ ~ENABLED Next
         /\ step = StepOf(log[k].id)
         /\ \A j \in 1..NSteps :
              /\ j > step => \A m \in 1..Len(log) : log[m].id # StepId(j)
              /\ j < step => objs[StepId(j)] = Target(j)
         /\ step >= 1 => dataset.exists
         /\ ~Printed(CompletionLine)

\* The second table failed at its create call after its stale predecessor
\* was deleted; the first table stays created.
C4_Witness ==
    /\ pc = "failed" /\ step = 2
    /\ Last = Call("create_table", Id("trades"), "Forbidden")
    /\ prior.objs[Id("trades")] = StaleTable
    /\ objs[Id("daily_summary")] = Target(1)
    /\ prior.objs[Id("daily_summary")] = StaleTable
ProvisionerCalls == {k \in 1..Len(log) : log[k].api \in {"get_table", "delete_table", "create_table"}}

Raised(k) == log[k].res # "ok"

\* The call raised and the run ended there.
Fatal(k) == k = Len(log) /\ pc = "failed" /\ exit = 1

\* C5 as stated: in create_table and create_view every error is fatal except
\* a not-found raised by the lookup; in particular no create call follows a
\* delete call that raised.
C5_Original ==
    /\ \A k \in ProvisionerCalls :
         (Raised(k) /\ ~(log[k].api = "get_table" /\ log[k].res = "NotFound")) => Fatal(k)
    /\ \A k \in ProvisionerCalls :
         (log[k].api = "delete_table" /\ Raised(k)) =>
            ~\E m \in ProvisionerCalls : m > k /\ log[m].api = "create_table"

\* C5 amended: in create_table and create_view the errors handled are a
\* not-found raised by the lookup call and a not-found raised by the delete
\* call (both are in the try block), after which the create call is issued;
\* any other error of the lookup or delete call and any error of the create
\* call is fatal, so no create call follows a delete call that raised anything
\* other than not-found.
C5_OnlyNotFoundHandled ==
    /\ \A k \in ProvisionerCalls :
         (Raised(k) /\ ~(log[k].api \in {"get_table", "delete_table"} /\ log[k].res = "NotFound"))
            => Fatal(k)
    /\ \A k \in ProvisionerCalls :
         (log[k].api \in {"get_table", "delete_table"} /\ log[k].res = "NotFound") =>
            \/ k = Len(log) /\ pc = "create_table" /\ StepId(step) = log[k].id
            \/ k < Len(log) /\ log[k + 1].api = "create_table" /\ log[k + 1].id = log[k].id
    /\ \A k \in ProvisionerCalls :
         (log[k].api = "delete_table" /\ Raised(k) /\ log[k].res # "NotFound") =>
            ~\E m \in ProvisionerCalls : m > k /\ log[m].api = "create_table"

\* The table was dropped by another user between the lookup and the delete:
\* the delete raised not-found and the table was created all the same.
C5_Witness ==
    /\ Len(log) >= 4
    /\ log[2] = Call("get_table", Id("daily_summary"), "ok")
    /\ log[3] = Call("delete_table", Id("daily_summary"), "NotFound")
    /\ log[4] = Call("create_table", Id("daily_summary"), "ok")
\* The order of the provisioning steps and the table each view reads.
Order ==
    <<"daily_summary", "trades", "market_data_archive",
      "daily_performance", "monthly_summary", "strike_performance">>

Upstream(view) ==
    IF view = "strike_performance" THEN "trades" ELSE "daily_summary"

\* Position of the object of a call in Order, 0 for the dataset.
Pos(id) ==
    IF id = DatasetId THEN 0
    ELSE CHOOSE n \in 1..Len(Order) : Id(Order[n]) = id

\* The object under id was created by this run and is as created.
Fresh(id) ==
    /\ \E k \in 1..Len(log) : log[k] = Call("create_table", id, "ok")
    /\ objs[id].kind = "TABLE"
    /\ objs[id].rows = 0

\* C6: the calls of a run follow the order dataset, daily_summary, trades,
\* market_data_archive, daily_performance, monthly_summary,
\* strike_performance; the first call for an object comes only after the
\* previous object was created (the dataset ensured, for the first table);
\* and whenever a view is being provisioned the table its query reads
\* (daily_summary for daily_performance and monthly_summary, trades for
\* strike_performance) exists as this run created it.
C6_FixedOrder ==
    /\ \A k \in 1..Len(log) : \E n \in 0..Len(Order) :
         log[k].id = (IF n = 0 THEN DatasetId ELSE Id(Order[n]))
    /\ \A k, m \in 1..Len(log) : k < m => Pos(log[k].id) <= Pos(log[m].id)
    /\ \A k \in 1..Len(log) :
         /\ Pos(log[k].id) = 1 =>
              \E m \in 1..(k - 1) :
                 log[m].id = DatasetId /\ log[m].res = "ok"
         /\ Pos(log[k].id) > 1 =>
              \E m \in 1..(k - 1) :
                 log[m] = Call("create_table", Id(Order[Pos(log[k].id) - 1]), "ok")
    /\ step >= 1 => StepId(step) = Id(Order[step])
    /\ \A n \in 4..6 :
         (step = n /\ pc \in {"get_table", "delete_table", "create_table", "done"}) =>
            /\ Steps[n].kind = "view"
            /\ Steps[n].query.from = Id(Upstream(Order[n]))
            /\ Fresh(Id(Upstream(Order[n])))

\* strike_performance is about to be created and trades, stale before the
\* run, is the table the run created.
C6_Witness ==
    /\ pc = "create_table" /\ step = 6
    /\ prior.objs[Id("trades")] = StaleTable
    /\ objs[Id("trades")] = Target(2)
    /\ Steps[6].query.from = Id("trades")

\* C7 as stated: when a run completes, the dataset with its location, the
\* three tables and the three views are what the constants of the script say,
\* whatever the warehouse held before.
C7_Original ==
    pc = "done" =>
       /\ dataset = [exists |-> TRUE, location |-> "US"]
       /\ \A i \in 1..NSteps : objs[StepId(i)] = Target(i)

\* C7 amended: when a run completes, the three tables and the three views
\* are what the constants of the script say, whatever the warehouse held
\* before; the dataset exists, in location US if the script created it and
\* otherwise in the location it had before the run.
C7_EndStateFromConstants ==
    pc = "done" =>
       /\ \A i \in 1..NSteps : objs[StepId(i)] = Target(i)
       /\ dataset.exists
       /\ dataset.location = IF prior.dataset.exists THEN prior.dataset.location ELSE "US"
       /\ DatasetCreates # {} <=> ~prior.dataset.exists

\* A first run completed in a dataset that was in location EU and held a
\* stale object under every identifier.
C7_Witness ==
    /\ pc = "done" /\ run = 1
    /\ prior.dataset = NewDataset("EU")
    /\ dataset.location = "EU"
    /\ \A i \in 1..NSteps : prior.objs[StepId(i)] # Absent
\* The run started on an empty dataset (or with no dataset at all).
EmptyStart == \A id \in Ids : prior.objs[id] = Absent

NoCallFailed == \A k \in 1..Len(log) : ~Unhandled(k)

Tables == {id \in Ids : objs[id].kind = "TABLE"}
Views == {id \in Ids : objs[id].kind = "VIEW"}

Columns(name) == Len(objs[Id(name)].schema)

C8_EndState ==
    /\ (pc = "done" /\ EmptyStart) =>
         /\ Tables = {Id("daily_summary"), Id("trades"), Id("market_data_archive")}
         /\ Cardinality(Tables) = 3
         /\ \A id \in Tables :
              objs[id].rows = 0 /\ objs[id].partition = [type |-> "DAY", field |-> "date"]
         /\ Columns("daily_summary") = 24
         /\ Columns("trades") = 25
         /\ Columns("market_data_archive") = 8
         /\ Views = {Id("daily_performance"), Id("monthly_summary"), Id("strike_performance")}
         /\ Cardinality(Views) = 3
    /\ pc = "done" => exit = 0 /\ Printed(CompletionLine) /\ NoCallFailed
    /\ exit = 0 <=> pc = "done"
    /\ exit = 1 <=> ~NoCallFailed
    /\ exit \in {-1, 0, 1}
    /\ exit = -1 <=> pc \notin {"done", "failed"}

\* C8: every run ends, completed unless a call failed; a run that completes
\* has exit status 0 and has printed the completion line, and when it
\* started on an empty dataset exactly the three tables exist, with no rows,
\* 24, 25 and 8 columns and daily partitioning on date, and exactly the three
\* views; the exit status is 1 exactly when a call raised an unhandled error.
C8_TerminatesProvisioned ==
    /\ []C8_EndState
    /\ (pc = "get_dataset") ~> (pc = "done" \/ ~NoCallFailed)
    /\ (pc = "get_dataset") ~> (pc \in {"done", "failed"})

\* A first run completed on an empty dataset.
C8_Witness ==
    /\ pc = "done" /\ run = 1 /\ exit = 0
    /\ EmptyStart /\ prior.dataset.exists
    /\ NoCallFailed
    /\ Cardinality(Tables) = 3

\* C9: with the script alone in the warehouse, a create call is issued only
\* when nothing exists under the identifier, a delete call only right after
\* the lookup of the same identifier returned, and a run that completes has
\* issued for each object exactly one lookup, at most one delete and exactly
\* one create.
C9_CreateOnlyWhenAbsent ==
    /\ pc = "create_table" => objs[StepId(step)].kind = "NONE"
    /\ \A k \in 1..Len(log) :
         /\ log[k].api = "create_table" => log[k].res # "Conflict"
         /\ log[k].api = "create_table" =>
              \/ log[k - 1] = Call("get_table", log[k].id, "NotFound")
              \/ log[k - 1] = Call("delete_table", log[k].id, "ok")
         /\ log[k].api = "delete_table" =>
              /\ log[k - 1] = Call("get_table", log[k].id, "ok")
              /\ log[k].res # "NotFound"
    /\ pc = "delete_table" =>
         /\ Last = Call("get_table", StepId(step), "ok")
         /\ objs[StepId(step)].kind # "NONE"
    /\ pc = "done" =>
         \A i \in 1..NSteps :
            /\ Cardinality(Calls("get_table", StepId(i))) = 1
            /\ Cardinality(Calls("delete_table", StepId(i))) <= 1
            /\ Cardinality(Calls("create_table", StepId(i))) = 1
            /\ Calls("delete_table", StepId(i)) # {} <=> prior.objs[StepId(i)] # Absent

\* A run completed that deleted some objects and found others absent.
C9_Witness ==
    /\ pc = "done"
    /\ Calls("delete_table", Id("daily_summary")) # {}
    /\ Calls("delete_table", Id("trades")) = {}
    /\ Calls("delete_table", Id("monthly_summary")) # {}
    /\ Len(log) = 1 + 2 * NSteps + 3

OtherId == Id(OtherName)

C10_Frame ==
    /\ \A j \in 1..NSteps :
         /\ j > step => objs[StepId(j)] = prior.objs[StepId(j)]
         /\ (j < step \/ pc = "done") => objs[StepId(j)] = Target(j)
         /\ j = step => objs[StepId(j)] \in {prior.objs[StepId(j)], Absent, Target(j)}
    /\ objs[OtherId] = prior.objs[OtherId]
    /\ prior.dataset.exists => dataset = prior.dataset
    /\ step >= 1 => dataset.exists

\* C10: a step of the script changes no object but the one being provisioned
\* and never removes the dataset; so at every point of a run, also after an
\* abort, the objects of steps not yet started are as before the run, the
\* objects of completed steps are as created, and the object the script does
\* not name is as before the run.
C10_OnlyNamedObjectChanges ==
    /\ []C10_Frame
    /\ [][/\ \A id \in Ids :
               objs'[id] # objs[id] =>
                  /\ step >= 1 /\ id = StepId(step)
                  /\ pc \in {"delete_table", "create_table"}
          /\ dataset.exists => dataset' = dataset]_vars

\* The run failed at the first view: the tables are created, the other views
\* and the object the script does not name are as they were.
C10_Witness ==
    /\ pc = "failed" /\ step = 4
    /\ objs[Id("daily_performance")] = Absent
    /\ prior.objs[Id("daily_performance")] = StaleView
    /\ objs[Id("monthly_summary")] = StaleView
    /\ objs[Id("strike_performance")] = StaleTable
    /\ objs[OtherId] = StaleTable
    /\ \A j \in 1..3 : objs[StepId(j)] = Target(j) /\ prior.objs[StepId(j)] # Absent
====
